---- MODULE Spec2Model ----
(***************************************************************************)
(* Geometry import/export of GeometryConversionUtils.cpp: the memory-      *)
(* mapped parallel OBJ and PLY importers, the single-threaded PLY          *)
(* importer and the OBJ exporter.                                          *)
(*                                                                         *)
(* A file is a string of bytes; a pointer into the mapped view is a byte   *)
(* offset (0 = file_start).  A float is the decimal number its text        *)
(* denotes, kept as a normalised pair <<mantissa, exponent10>>; binary     *)
(* rounding of float32 is not modelled.  A 32-bit unsigned word u is kept  *)
(* as the integer u when u < 2^31 and as u - 2^32 otherwise.               *)
(***************************************************************************)
EXTENDS Integers, Sequences, FiniteSets, TLC

VARIABLES
    op,         \* which entry point is called: "OBJ", "PLY", "PLYMain", "RT"
    ext,        \* lowercase extension of absFileName
    geom,       \* geometry handed to the exporter (round trip), or NoGeom
    file,       \* bytes of the file on disk
    pad,        \* what a read of the byte just past the mapped file yields
    par,        \* importInParallel
    hw,         \* std::thread::hardware_concurrency()
    pc,         \* position of the calling thread
    held,       \* OS objects currently held: subset of {"file","mapping","view"}
    dataStart,  \* file_start after the PLY header (0 for OBJ)
    workers,    \* one record per spawned std::thread, in spawn order
    joined,     \* number of threads joined so far
    chunkIds,   \* the optional chunk-id vector the caller passes
    err,        \* the failing branch taken (its std::cerr line), or NoError
    result,     \* the optional of resultData; once pc = "done", the one returned
    points,     \* the points handed to a spatial operation
    hull,       \* what QuickHull::getConvexHull returned, or NoHull
    sizeHigh,   \* high-order DWORD of the length of the file on disk
    nNeighbors  \* the nNeighbors argument of the mean-distance operation

vars == <<op, ext, geom, file, pad, par, hw, pc, held, dataStart, workers,
          joined, chunkIds, err, result, points, hull, sizeHigh, nNeighbors>>

----------------------------------------------------------------------------
(* Bounds of the model *)

MaxThreads == 3        \* largest hardware_concurrency() explored
MaxLines == 3          \* most lines of a generated OBJ file
MaxBodyLines == 2      \* most complete body lines of a generated PLY file
MaxVerts == 2          \* most vertices of an exported geometry
MaxPolys == 1          \* most polygons of an exported geometry
MaxPoints == 4         \* most points handed to a spatial operation
MaxSizeHigh == 1       \* largest high-order DWORD of a file length explored
MaxPlanLines == 1      \* most complete lines of a file of the planning runs
MaxRecords == 2        \* most complete lines of a range handed to a parser
MaxPolylines == 3      \* most polylines handed to the polyline exporter
MaxNeighbors == 3      \* largest nNeighbors explored

----------------------------------------------------------------------------
(* Bytes and the mapped view *)

LF == "\n"
NUL == "@"             \* stands for the byte 0
FAULT == "FAULT"       \* a read that raises an access violation
NoGeom == "NoGeom"
NoError == "NoError"
NoHull == <<>>

\* A std::optional is the empty sequence or the sequence of its one value.
Failure == <<>>
Some(v) == <<v>>
NoIds == <<>>

\* The byte at offset p of memory m; the bytes after m are the zero fill of
\* the view's last page.
At(m, p) == IF p >= 0 /\ p < Len(m) THEN SubSeq(m, p + 1, p + 1) ELSE NUL

\* The mapped view: the file followed by whatever lies at file_end.
Mem == IF pad = FAULT THEN file ELSE file \o pad

\* The length of the file on disk as its two DWORDs: the file is the bytes
\* of file followed by sizeHigh * 2^32 more bytes.
RealLength == [high |-> sizeHigh, low |-> Len(file)]

\* GetFileSize(file_handle, nullptr): the low-order DWORD of the length; the
\* high-order DWORD is not asked for.
GetFileSize(length) == length.low

\* const DWORD file_size = GetFileSize(file_handle, nullptr);
FileSize == GetFileSize(RealLength)

IsSpace(c) == c \in {" ", "\n", "\r", "\t"}
IsDigit(c) == c \in {"0", "1", "2", "3", "4", "5", "6", "7", "8", "9"}
DigitVal(c) ==
    CASE c = "0" -> 0 [] c = "1" -> 1 [] c = "2" -> 2 [] c = "3" -> 3
      [] c = "4" -> 4 [] c = "5" -> 5 [] c = "6" -> 6 [] c = "7" -> 7
      [] c = "8" -> 8 [] c = "9" -> 9

RECURSIVE SkipSpace(_, _)
SkipSpace(m, p) == IF IsSpace(At(m, p)) THEN SkipSpace(m, p + 1) ELSE p

\* Scans decimal digits from p: the number read so far is acc, n digits seen.
RECURSIVE ScanDigits(_, _, _, _)
ScanDigits(m, p, acc, n) ==
    IF IsDigit(At(m, p))
    THEN ScanDigits(m, p + 1, acc * 10 + DigitVal(At(m, p)), n + 1)
    ELSE [val |-> acc, end |-> p, n |-> n]

RECURSIVE Pow10(_)
Pow10(k) == IF k <= 0 THEN 1 ELSE 10 * Pow10(k - 1)

\* A decimal mant * 10^ex in normal form: no trailing zero in the mantissa.
RECURSIVE Dec(_, _)
Dec(mant, ex) ==
    IF mant = 0 THEN <<0, 0>>
    ELSE IF mant % 10 = 0 THEN Dec(mant \div 10, ex + 1)
    ELSE <<mant, ex>>

Zero == <<0, 0>>

\* The cursor after an optional sign at q.
SignEnd(m, q) == IF At(m, q) \in {"-", "+"} THEN q + 1 ELSE q

\* The exponent part at e, if there is a complete one.
ExponentOf(m, e, ed) ==
    IF At(m, e) \in {"e", "E"} /\ ed.n > 0
    THEN [ok |-> TRUE, end |-> ed.end,
          val |-> IF At(m, e + 1) = "-" THEN 0 - ed.val ELSE ed.val]
    ELSE [ok |-> FALSE, end |-> e, val |-> 0]

FloatOf(p, neg, ip, fp, ex) ==
    IF ip.n + fp.n = 0
    THEN [val |-> Zero, end |-> p]
    ELSE [val |-> Dec((IF neg THEN 0 - 1 ELSE 1) * (ip.val * Pow10(fp.n) + fp.val),
                      ex.val - fp.n),
          end |-> ex.end]

FractionOf(m, p, neg, ip, fp) ==
    FloatOf(p, neg, ip, fp,
            ExponentOf(m, fp.end, ScanDigits(m, SignEnd(m, fp.end + 1), 0, 0)))

MantissaOf(m, p, neg, ip) ==
    FractionOf(m, p, neg, ip,
               IF At(m, ip.end) = "." THEN ScanDigits(m, ip.end + 1, 0, 0)
               ELSE [val |-> 0, end |-> ip.end, n |-> 0])

StrToFAt(m, p, q) ==
    MantissaOf(m, p, At(m, q) = "-", ScanDigits(m, SignEnd(m, q), 0, 0))

\* std::strtof(cursor, &tempCursor): white space, optional sign, digits with
\* an optional fraction, optional exponent.  With no digits nothing is
\* converted: the value is 0 and tempCursor is the cursor it was given.
StrToF(m, p) == StrToFAt(m, p, SkipSpace(m, p))

ULongOf(p, neg, d) ==
    IF d.n = 0
    THEN [val |-> 0, end |-> p]
    ELSE [val |-> IF neg THEN 0 - d.val ELSE d.val, end |-> d.end]

StrToULAt(m, p, q) ==
    ULongOf(p, At(m, q) = "-", ScanDigits(m, SignEnd(m, q), 0, 0))

\* std::strtoul(cursor, &tempCursor, 10) narrowed to unsigned int: a leading
\* minus sign negates the value as an unsigned word.
StrToUL(m, p) == StrToULAt(m, p, SkipSpace(m, p))

\* a < b for two unsigned words
ULess(a, b) == IF (a < 0) = (b < 0) THEN a < b ELSE b < 0

\* Three floats read one after the other from p on; ok tells that each of
\* the three reads converted something.
Vec3Of(p, x, y, z) ==
    [vec |-> <<x.val, y.val, z.val>>, end |-> z.end,
     ok |-> x.end # p /\ y.end # x.end /\ z.end # y.end]

ScanVec3Z(m, p, x, y) == Vec3Of(p, x, y, StrToF(m, y.end))
ScanVec3Y(m, p, x) == ScanVec3Z(m, p, x, StrToF(m, x.end))
ScanVec3(m, p) == ScanVec3Y(m, p, StrToF(m, p))

----------------------------------------------------------------------------
(* ParseChunk *)

ChunkData == [Vertices |-> <<>>, VertexNormals |-> <<>>, PolyIndices |-> <<>>]

\* while (*cursor != '\n' && cursor < end) cursor++;
RECURSIVE SkipToNewline(_, _, _)
SkipToNewline(m, end, p) ==
    IF At(m, p) # LF /\ p < end THEN SkipToNewline(m, end, p + 1) ELSE p

\* while (*cursor != ' ' && *cursor != '\n' && cursor < end) cursor++;
RECURSIVE SkipToSpaceOrNewline(_, _, _)
SkipToSpaceOrNewline(m, end, p) ==
    IF At(m, p) # " " /\ At(m, p) # LF /\ p < end
    THEN SkipToSpaceOrNewline(m, end, p + 1)
    ELSE p

\* if (*cursor == '/') { cursor++; strtoul(...); cursor = tempCursor; }
SkipNormalIndex(m, b) == IF At(m, b) = "/" THEN StrToUL(m, b + 1).end ELSE b

\* The "/texcoord/normal" part of a face token, parsed only to be skipped.
SkipSlashes(m, p) ==
    IF At(m, p) # "/" THEN p
    ELSE SkipNormalIndex(m, IF At(m, p + 1) # "/" THEN StrToUL(m, p + 1).end
                            ELSE p + 1)

\* if (*cursor == ' ') cursor++;
SkipOneSpace(m, s) == IF At(m, s) = " " THEN s + 1 ELSE s

\* The inner loop of the face branch: the indices read and the final cursor.
RECURSIVE FaceLoop(_, _, _, _)
RECURSIVE FaceIndex(_, _, _, _, _)
FaceIndex(m, end, p, idx, r) ==
    IF r.end = p THEN [cursor |-> p, idx |-> idx]
    ELSE IF r.val = 0 THEN [cursor |-> r.end, idx |-> idx]
    ELSE FaceLoop(m, end,
                  SkipOneSpace(m, SkipToSpaceOrNewline(m, end, SkipSlashes(m, r.end))),
                  Append(idx, r.val - 1))

FaceLoop(m, end, p, idx) ==
    IF At(m, p) # LF /\ p < end
    THEN FaceIndex(m, end, p, idx, StrToUL(m, p))
    ELSE [cursor |-> p, idx |-> idx]

\* The vertex/normal branch of ParseChunk, v being the three floats read.
PushVec(data, isNormal, v) ==
    [cursor |-> v.end,
     data |-> IF isNormal
              THEN [data EXCEPT !.VertexNormals = Append(@, v.vec)]
              ELSE [data EXCEPT !.Vertices = Append(@, v.vec)]]

\* A face branch that keeps the polygon of every f line.
PushFaceAlways(end, data, idx, nl) ==
    [cursor |-> IF nl < end THEN nl + 1 ELSE nl,
     data |-> [data EXCEPT !.PolyIndices = Append(@, idx)]]

\* The end of the face branch: the polygon is kept if it has an index, and
\* the cursor moves to the next line.
PushFace(end, data, idx, nl) ==
    [cursor |-> IF nl < end THEN nl + 1 ELSE nl,
     data |-> IF idx # <<>>
              THEN [data EXCEPT !.PolyIndices = Append(@, idx)]
              ELSE data]

FaceBranch(m, end, data, f) ==
    PushFace(end, data, f.idx, SkipToNewline(m, end, f.cursor))

IsNormalLine(m, p) == At(m, p) = "v" /\ At(m, p + 1) = "n" /\ At(m, p + 2) = " "
IsVertexLine(m, p) == At(m, p) = "v" /\ At(m, p + 1) = " "
IsFaceLine(m, p) == At(m, p) = "f" /\ At(m, p + 1) = " "

\* One iteration of ParseChunk's outer loop, entered with cursor < end.
ParseStep(m, end, cursor, data) ==
    IF At(m, cursor) = LF THEN [cursor |-> cursor + 1, data |-> data]
    ELSE IF IsNormalLine(m, cursor)
    THEN PushVec(data, TRUE, ScanVec3(m, cursor + 3))
    ELSE IF IsVertexLine(m, cursor)
    THEN PushVec(data, FALSE, ScanVec3(m, cursor + 2))
    ELSE IF IsFaceLine(m, cursor)
    THEN FaceBranch(m, end, data, FaceLoop(m, end, cursor + 2, <<>>))
    ELSE [cursor |-> SkipToNewline(m, end, cursor), data |-> data]

\* ParseChunk(start, end, data) run to completion.
RECURSIVE ParseChunk(_, _, _, _)
RECURSIVE ParseChunkFrom(_, _, _)
ParseChunkFrom(m, end, s) == ParseChunk(m, end, s.cursor, s.data)

ParseChunk(m, end, cursor, data) ==
    IF cursor < end
    THEN ParseChunkFrom(m, end, ParseStep(m, end, cursor, data))
    ELSE data

----------------------------------------------------------------------------
(* PLY: ParsePointCloudChunk, ReadPLYVertexHeader, the getline importer *)

\* if (!line.empty() && line.back() == '\r') line.pop_back();
StripCR(line) ==
    IF Len(line) > 0 /\ SubSeq(line, Len(line), Len(line)) = "\r"
    THEN SubSeq(line, 1, Len(line) - 1)
    ELSE line

\* iss >> vertex[0] >> vertex[1] >> vertex[2] on one line: the stream fails
\* as soon as one extraction reads no number.
LineFloats(line) == ScanVec3(line, 0)

\* while ((*cursor == ' ' || *cursor == '\n') && cursor < end) cursor++;
RECURSIVE SkipBlank(_, _, _)
SkipBlank(m, end, p) ==
    IF (At(m, p) = " " \/ At(m, p) = LF) /\ p < end
    THEN SkipBlank(m, end, p + 1)
    ELSE p

\* The end of one iteration: the point of the line is kept if it parsed.
PushPoint(data, next, fl) ==
    [cursor |-> next,
     data |-> IF fl.ok THEN Append(data, fl.vec) ELSE data,
     brk |-> FALSE]

\* One iteration from the line found at [lineStart, lineEnd).
PointLine(m, end, data, lineStart, lineEnd) ==
    IF At(m, lineEnd) # LF /\ lineEnd = end
    THEN [cursor |-> lineEnd, data |-> data, brk |-> TRUE]
    ELSE PushPoint(data, IF lineEnd < end THEN lineEnd + 1 ELSE lineEnd,
                   LineFloats(StripCR(SubSeq(m, lineStart + 1, lineEnd))))

PointLineFrom(m, end, data, lineStart) ==
    IF lineStart >= end
    THEN [cursor |-> lineStart, data |-> data, brk |-> TRUE]
    ELSE PointLine(m, end, data, lineStart, SkipToNewline(m, end, lineStart))

\* One iteration of ParsePointCloudChunk's outer loop, entered with
\* cursor < end; brk tells that the loop was left by a break.
PointStep(m, end, cursor, data) ==
    PointLineFrom(m, end, data, SkipBlank(m, end, cursor))

\* ParsePointCloudChunk(start, end, data) run to completion.
RECURSIVE ParsePointCloudChunk(_, _, _, _)
RECURSIVE ParsePointCloudChunkFrom(_, _, _)
ParsePointCloudChunkFrom(m, end, s) ==
    IF s.brk THEN s.data ELSE ParsePointCloudChunk(m, end, s.cursor, s.data)

ParsePointCloudChunk(m, end, cursor, data) ==
    IF cursor < end
    THEN ParsePointCloudChunkFrom(m, end, PointStep(m, end, cursor, data))
    ELSE data

\* while (*cursor != '\n' && *cursor != '\0') cursor++;
RECURSIVE SkipToNewlineOrNul(_, _)
SkipToNewlineOrNul(m, p) ==
    IF At(m, p) # LF /\ At(m, p) # NUL THEN SkipToNewlineOrNul(m, p + 1) ELSE p

StartsWith(line, prefix) ==
    Len(line) >= Len(prefix) /\ SubSeq(line, 1, Len(prefix)) = prefix

\* iss >> word: the next white-space delimited word of line from p on.
RECURSIVE SkipWord(_, _)
SkipWord(line, p) ==
    IF p < Len(line) /\ ~IsSpace(At(line, p)) THEN SkipWord(line, p + 1) ELSE p

WordAt(line, a, b) == [word |-> SubSeq(line, a + 1, b), end |-> b]
WordFrom(line, a) == WordAt(line, a, SkipWord(line, a))
NextWord(line, p) == WordFrom(line, SkipSpace(line, p))

RECURSIVE AfterWords(_, _, _)
AfterWords(line, p, k) ==
    IF k = 0 THEN p ELSE AfterWords(line, NextWord(line, p).end, k - 1)

\* iss >> vertexCount: the count, 0 when the extraction fails.
CountOf(p, r) == IF r.end # p THEN r.val ELSE 0
CountAt(line, p) == CountOf(p, StrToUL(line, p))

\* iss >> element >> vertex >> vertexCount
CountAfterWords(line, k) == CountAt(line, AfterWords(line, 0, k))

\* The loop of ReadPLYVertexHeader from cursor on: the pair it returns, and
\* whether it read a byte at or after offset size (the function is not told
\* where the view ends).
RECURSIVE ReadPLYVertexHeader(_, _, _, _)
RECURSIVE HeaderLine(_, _, _, _, _, _)
HeaderLine(m, size, vertexCount, lineEnd, line, next) ==
    IF StartsWith(line, "element vertex")
    THEN [ReadPLYVertexHeader(m, size, next, CountAfterWords(line, 2))
            EXCEPT !.oob = @ \/ lineEnd >= size]
    ELSE IF line = "end_header"
    THEN [vertexCount |-> vertexCount, cursor |-> next, oob |-> lineEnd >= size]
    ELSE [ReadPLYVertexHeader(m, size, next, vertexCount)
            EXCEPT !.oob = @ \/ lineEnd >= size]

RECURSIVE HeaderLineTo(_, _, _, _, _)
HeaderLineTo(m, size, cursor, vertexCount, lineEnd) ==
    HeaderLine(m, size, vertexCount, lineEnd,
               StripCR(SubSeq(m, cursor + 1, lineEnd)),
               IF At(m, lineEnd) # NUL THEN lineEnd + 1 ELSE lineEnd)

ReadPLYVertexHeader(m, size, cursor, vertexCount) ==
    IF At(m, cursor) = NUL
    THEN [vertexCount |-> vertexCount, cursor |-> cursor, oob |-> cursor >= size]
    ELSE HeaderLineTo(m, size, cursor, vertexCount, SkipToNewlineOrNul(m, cursor))

\* The lines std::getline yields for the bytes f from offset p on.
RECURSIVE GetLines(_, _)
RECURSIVE GetLinesTo(_, _, _)
GetLinesTo(f, p, e) == <<SubSeq(f, p + 1, e)>> \o GetLines(f, e + 1)

GetLines(f, p) ==
    IF p >= Len(f) THEN <<>> ELSE GetLinesTo(f, p, SkipToNewline(f, Len(f), p))

\* The header loop of ImportPLYPointCloudDataMainThread:
\* while (std::getline(file, line) && !headerEnded) { ... }
\* i is the next line getline will yield.
RECURSIVE MainHeader(_, _, _, _)
RECURSIVE MainHeaderLine(_, _, _, _)
MainHeaderLine(lines, i, vertexCount, w1) ==
    IF w1.word = "element"
    THEN MainHeader(lines, i + 1,
                    IF NextWord(lines[i], w1.end).word = "vertex"
                    THEN CountAfterWords(lines[i], 2)
                    ELSE vertexCount,
                    FALSE)
    ELSE MainHeader(lines, i + 1, vertexCount, w1.word = "end_header")

MainHeader(lines, i, vertexCount, headerEnded) ==
    IF i > Len(lines)
    THEN [vertexCount |-> vertexCount, headerEnded |-> headerEnded, next |-> i]
    ELSE IF headerEnded
    THEN [vertexCount |-> vertexCount, headerEnded |-> TRUE, next |-> i + 1]
    ELSE MainHeaderLine(lines, i, vertexCount, NextWord(lines[i], 0))

\* The body loop of ImportPLYPointCloudDataMainThread from line i on.
RECURSIVE MainBody(_, _)
RECURSIVE MainBodyLine(_, _, _)
MainBodyLine(lines, i, fl) ==
    (IF fl.ok THEN <<fl.vec>> ELSE <<>>) \o MainBody(lines, i + 1)

MainBody(lines, i) ==
    IF i > Len(lines) THEN <<>> ELSE MainBodyLine(lines, i, LineFloats(lines[i]))

MainThreadBody(lines, h) ==
    IF ~h.headerEnded \/ h.vertexCount = 0 THEN Failure
    ELSE Some(MainBody(lines, h.next))

MainThreadLines(lines) == MainThreadBody(lines, MainHeader(lines, 1, 0, FALSE))

\* ImportPLYPointCloudDataMainThread once the file is open.
MainThreadRead(f) == MainThreadLines(GetLines(f, 0))

----------------------------------------------------------------------------
(* ExportBaseMeshGeometryDataToOBJ *)

DigitChar(d) == SubSeq("0123456789", d + 1, d + 1)

\* The decimal digits of a natural number.
RECURSIVE NatToStr(_)
NatToStr(n) == IF n < 10 THEN DigitChar(n) ELSE NatToStr(n \div 10) \o DigitChar(n % 10)

RECURSIVE Zeros(_)
Zeros(k) == IF k <= 0 THEN "" ELSE "0" \o Zeros(k - 1)

\* The number of significant digits operator<< writes for a float
\* (std::ios_base::precision() of a default-constructed stream).
StreamPrecision == 6

\* d.ddddde+XX for the digits d and the decimal exponent x
Scientific(d, x) ==
    SubSeq(d, 1, 1)
        \o (IF Len(d) > 1 THEN "." \o SubSeq(d, 2, Len(d)) ELSE "")
        \o (IF x < 0 THEN "e-" ELSE "e+")
        \o (IF (IF x < 0 THEN 0 - x ELSE x) < 10 THEN "0" ELSE "")
        \o NatToStr(IF x < 0 THEN 0 - x ELSE x)

\* Fixed notation for the digits d, the first of weight 10^x.
Fixed(d, x) ==
    IF x < 0 THEN "0." \o Zeros(0 - x - 1) \o d
    ELSE IF Len(d) <= x + 1 THEN d \o Zeros(x + 1 - Len(d))
    ELSE SubSeq(d, 1, x + 1) \o "." \o SubSeq(d, x + 2, Len(d))

FormatDigits(d, x) ==
    IF x < 0 - 4 \/ x >= StreamPrecision THEN Scientific(d, x) ELSE Fixed(d, x)

\* r is the mantissa rounded to StreamPrecision digits; k the digits before.
FormatRounded(r, k, ex) ==
    FormatDigits(NatToStr(Dec(r, 0)[1]),
                 k - 1 + ex + (IF r = Pow10(StreamPrecision) /\ k > StreamPrecision
                               THEN 1 ELSE 0))

FormatMantissa(a, k, ex) ==
    FormatRounded(IF k > StreamPrecision
                  THEN (a + 5 * Pow10(k - StreamPrecision - 1))
                           \div Pow10(k - StreamPrecision)
                  ELSE a,
                  k, ex)

FormatAbs(a, ex) == FormatMantissa(a, Len(NatToStr(a)), ex)

\* file << vertex[0]: the float in %g style with StreamPrecision significant
\* digits.
FormatFloat(v) ==
    IF v[1] = 0 THEN "0"
    ELSE IF v[1] < 0 THEN "-" \o FormatAbs(0 - v[1], v[2])
    ELSE FormatAbs(v[1], v[2])

VecLine(prefix, vec) ==
    prefix \o FormatFloat(vec[1]) \o " " \o FormatFloat(vec[2]) \o " "
           \o FormatFloat(vec[3]) \o "\n"

RECURSIVE VecLines(_, _, _)
VecLines(prefix, vecs, i) ==
    IF i > Len(vecs) THEN ""
    ELSE VecLine(prefix, vecs[i]) \o VecLines(prefix, vecs, i + 1)

\* file << ' ' << (index + 1) for every index of one polygon
RECURSIVE FaceIndices(_, _)
FaceIndices(indices, i) ==
    IF i > Len(indices) THEN ""
    ELSE " " \o NatToStr(indices[i] + 1) \o FaceIndices(indices, i + 1)

RECURSIVE FaceLines(_, _)
FaceLines(polys, i) ==
    IF i > Len(polys) THEN ""
    ELSE "f" \o FaceIndices(polys[i], 1) \o "\n" \o FaceLines(polys, i + 1)

\* The bytes ExportBaseMeshGeometryDataToOBJ writes for geomData.
ExportOBJ(geomData) ==
    VecLines("v ", geomData.Vertices, 1)
        \o VecLines("vn ", geomData.VertexNormals, 1)
        \o FaceLines(geomData.PolyIndices, 1)

----------------------------------------------------------------------------
(* Inputs *)

\* All concatenations of at most n strings of L.
RECURSIVE Concats(_, _)
Concats(L, n) ==
    IF n = 0 THEN {""}
    ELSE LET prev == Concats(L, n - 1)
         IN  prev \cup {a \o b : a \in prev, b \in L}

\* All sequences over S of length at most n.
RECURSIVE SeqsUpTo(_, _)
SeqsUpTo(S, n) ==
    IF n = 0 THEN {<<>>}
    ELSE LET prev == SeqsUpTo(S, n - 1)
         IN  prev \cup {Append(q, x) : q \in prev, x \in S}

OBJLines == {"v 1 2 3\n", "vn 0 0 1\n", "f 1 2\n", "#\n"}
OBJTails == {"", "v 4 5 6"}
OBJFiles == {f \o t : f \in Concats(OBJLines, MaxLines), t \in OBJTails}

PLYHeads == {"ply\n", "ply\n@\n"}
PLYCounts == {"", "element vertex 2\n", "element vertex\n"}
PLYEnds == {"", "end_header\n"}
PLYLines == {"1 2 3\n", "4 5 6\n", "x 1\n"}
PLYTails == {"", "7 8 9"}
PLYFiles ==
    {""} \cup {h \o c \o e \o b \o t :
                  h \in PLYHeads, c \in PLYCounts, e \in PLYEnds,
                  b \in Concats(PLYLines, MaxBodyLines), t \in PLYTails}

Vec3s == { <<Dec(1, 0), Dec(2, 0), Dec(3, 0)>>,
           <<Dec(0, 0), Dec(5, -1), Dec(-1, 0)>>,
           <<Dec(1234567, 0), Dec(0, 0), Dec(1, 0)>> }
Polys == { <<>>, <<0, 1>>, <<1, 0, 1>> }
Geoms ==
    { [Vertices |-> v, VertexNormals |-> n, PolyIndices |-> q] :
        v \in SeqsUpTo(Vec3s, MaxVerts),
        n \in {<<>>, <<<<Dec(0, 0), Dec(0, 0), Dec(1, 0)>>>>},
        q \in SeqsUpTo(Polys, MaxPolys) }

Pads == {NUL, LF, FAULT}

----------------------------------------------------------------------------
(* The importers *)

\* const size_t thread_count = importInParallel ? hardware_concurrency() : 1;
ThreadCount == IF par THEN hw ELSE 1

\* An extension check that lets every extension through.
ExpectedExtensionAny(o) == ext

\* The extension each entry point accepts.
ExpectedExtension(o) == IF o \in {"PLY", "PLYMain"} THEN "ply" ELSE "obj"

\* Whether CreateFileMapping(file_handle, ..., 0, 0, ...) can succeed: a
\* file of length 0 cannot be mapped.
CanMap(length) == length.high > 0 \/ length.low > 0

\* if (vertexDataStart == 0): vertexDataStart is file_memory + offset, and
\* file_memory is not null here.
IsNullPointer(offset) == FALSE

\* What each failing branch releases before it returns.
MappingFailureRelease == {"file"}
ViewFailureReleaseLeak == {"mapping"}
ViewFailureRelease == {"mapping", "file"}
HeaderFailureRelease == {"view", "mapping", "file"}
CleanUpRelease == {"view", "mapping", "file"}

Init ==
    /\ op \in {"OBJ", "PLY", "PLYMain", "RT"}
    /\ geom \in (IF op = "RT" THEN Geoms ELSE {NoGeom})
    /\ file \in (CASE op = "OBJ" -> OBJFiles
                   [] op = "RT" -> {""}
                   [] OTHER -> PLYFiles)
    /\ ext \in {"obj", "ply"}
    /\ par \in BOOLEAN
    /\ hw \in 1..MaxThreads
    /\ (~par => hw = 1)
    /\ pad \in Pads
    /\ chunkIds \in (IF op = "OBJ" THEN {NoIds, Some(<<7>>)} ELSE {NoIds})
    /\ (op = "PLYMain" => ~par /\ pad = NUL)
    \* a call that stops at the extension check reads none of these
    /\ (ext # ExpectedExtension(op) => ~par /\ pad = NUL /\ chunkIds = NoIds)
    /\ pc = (IF op = "RT" THEN "export" ELSE "start")
    /\ held = {}
    /\ dataStart = 0
    /\ workers = <<>>
    /\ joined = 0
    /\ err = NoError
    /\ result = Failure
    /\ points = <<>>
    /\ hull = NoHull
    /\ sizeHigh = 0
    /\ nNeighbors = 1

\* return {} after releasing rel
Fail(why, rel) ==
    /\ pc' = "done"
    /\ err' = why
    /\ held' = held \ rel
    /\ result' = Failure

\* ExportBaseMeshGeometryDataToOBJ(geom, absFileName), then the import of
\* the written file.
Export ==
    /\ pc = "export"
    /\ \E opened \in BOOLEAN :
          IF opened
          THEN /\ file' = ExportOBJ(geom)
               /\ pc' = "start"
               /\ UNCHANGED err
          ELSE /\ pc' = "exportFailed"
               /\ err' = "open"
               /\ UNCHANGED file
    /\ UNCHANGED <<sizeHigh, nNeighbors, points, hull, op, ext, geom, pad, par, hw, held, dataStart, workers,
                   joined, chunkIds, result>>

\* if (extension != "obj") return {};
CheckExtension ==
    /\ pc = "start"
    /\ IF ext # ExpectedExtension(op)
       THEN Fail("extension", {})
       ELSE /\ pc' = (IF op = "PLYMain" THEN "ifstream" ELSE "open")
            /\ UNCHANGED <<err, held, result>>
    /\ UNCHANGED <<sizeHigh, nNeighbors, points, hull, op, ext, geom, file, pad, par, hw, dataStart, workers,
                   joined, chunkIds>>

\* CreateFile(...): INVALID_HANDLE_VALUE or a handle
CreateFile ==
    /\ pc = "open"
    /\ \E opened \in BOOLEAN :
          IF opened
          THEN /\ held' = held \cup {"file"}
               /\ pc' = "mapping"
               /\ UNCHANGED <<err, result>>
          ELSE Fail("open", {})
    /\ UNCHANGED <<sizeHigh, nNeighbors, points, hull, op, ext, geom, file, pad, par, hw, dataStart, workers,
                   joined, chunkIds>>

\* CreateFileMapping(...): nullptr or a mapping object
CreateFileMapping ==
    /\ pc = "mapping"
    /\ \E mapped \in (IF CanMap(RealLength) THEN BOOLEAN ELSE {FALSE}) :
          IF mapped
          THEN /\ held' = held \cup {"mapping"}
               /\ pc' = "view"
               /\ UNCHANGED <<err, result>>
          ELSE Fail("mapping", MappingFailureRelease)
    /\ UNCHANGED <<sizeHigh, nNeighbors, points, hull, op, ext, geom, file, pad, par, hw, dataStart, workers,
                   joined, chunkIds>>

\* MapViewOfFile(...): nullptr or the view
MapViewOfFile ==
    /\ pc = "view"
    /\ \E viewed \in BOOLEAN :
          IF viewed
          THEN /\ held' = held \cup {"view"}
               /\ pc' = (IF op = "PLY" THEN "header" ELSE "plan")
               /\ UNCHANGED <<err, result>>
          ELSE Fail("view", ViewFailureRelease)
    /\ UNCHANGED <<sizeHigh, nNeighbors, points, hull, op, ext, geom, file, pad, par, hw, dataStart, workers,
                   joined, chunkIds>>

\* An access violation ends the process.
Crash ==
    /\ pc' = "crashed"
    /\ UNCHANGED <<err, held, result>>

\* ImportPLYPointCloudData from the call of ReadPLYVertexHeader to the
\* "no vertex data" check.
ReadHeader ==
    /\ pc = "header"
    /\ LET h == ReadPLYVertexHeader(Mem, FileSize, 0, 0)
       IN  IF h.oob /\ pad = FAULT
           THEN Crash /\ UNCHANGED dataStart
           ELSE IF IsNullPointer(h.cursor)
           THEN Fail("header", HeaderFailureRelease) /\ UNCHANGED dataStart
           ELSE IF h.cursor >= FileSize
           THEN Fail("nodata", HeaderFailureRelease) /\ dataStart' = h.cursor
           ELSE /\ dataStart' = h.cursor
                /\ pc' = "plan"
                /\ UNCHANGED <<err, held, result>>
    /\ UNCHANGED <<sizeHigh, nNeighbors, points, hull, op, ext, geom, file, pad, par, hw, workers, joined,
                   chunkIds>>

\* chunk_end after the adjusting loop stopped at p; the byte at offset
\* size was read when the loop stopped there.
OBJChunkEnd(size, chunkStart, p) ==
    [start |-> chunkStart,
     end |-> IF p # size THEN p + 1 ELSE p,
     oob |-> p >= size]

OBJChunkOf(m, size, chunkStart, nominalEnd) ==
    OBJChunkEnd(size, chunkStart, SkipToNewline(m, size, nominalEnd))

OBJChunkAt(m, size, threadCount, i, chunkSize) ==
    OBJChunkOf(m, size, i * chunkSize,
               IF i = threadCount - 1 THEN size ELSE i * chunkSize + chunkSize)

\* One iteration of the chunk loop of ImportOBJMeshGeometryData: the range
\* handed to thread i (0-based) of threadCount.
OBJChunk(m, size, threadCount, i) ==
    OBJChunkAt(m, size, threadCount, i, size \div threadCount)

\* chunk_start and chunk_end after the two adjusting loops stopped at q, p.
PLYChunkEnds(size, i, nominalStart, q, p) ==
    [start |-> IF i > 0 THEN (IF q < size THEN q + 1 ELSE q) ELSE nominalStart,
     end |-> IF p < size THEN p + 1 ELSE p,
     oob |-> (i > 0 /\ q >= size) \/ p >= size]

PLYChunkOf(m, size, i, nominalStart, nominalEnd) ==
    PLYChunkEnds(size, i, nominalStart, SkipToNewline(m, size, nominalStart),
                 SkipToNewline(m, size, nominalEnd))

PLYChunkAt(m, fileStart, size, threadCount, i, chunkSize) ==
    PLYChunkOf(m, size, i, fileStart + i * chunkSize,
               IF i = threadCount - 1 THEN size
               ELSE fileStart + i * chunkSize + chunkSize)

\* std::max<size_t>(adjusted_file_size / thread_count, 1ul)
PLYChunkSize(adjusted, threadCount) ==
    IF adjusted \div threadCount >= 1 THEN adjusted \div threadCount ELSE 1

\* One iteration of the chunk loop of ImportPLYPointCloudData; fileStart is
\* the offset of the vertex data.
PLYChunk(m, fileStart, size, threadCount, i) ==
    PLYChunkAt(m, fileStart, size, threadCount, i,
               PLYChunkSize(size - fileStart, threadCount))

\* threads[i] = std::thread(ParseChunk, chunk_start, chunk_end, ...)
SpawnThread ==
    /\ pc = "plan"
    /\ Len(workers) < ThreadCount
    /\ LET i == Len(workers)
           c == IF op = "PLY"
                THEN PLYChunk(Mem, dataStart, FileSize, ThreadCount, i)
                ELSE OBJChunk(Mem, FileSize, ThreadCount, i)
       IN  IF c.oob /\ pad = FAULT
           THEN Crash /\ UNCHANGED workers
           ELSE /\ workers' = Append(workers,
                        [start |-> c.start, end |-> c.end,
                         cursor |-> c.start,
                         data |-> IF op = "PLY" THEN <<>> ELSE ChunkData,
                         fin |-> FALSE])
                /\ pc' = (IF i = ThreadCount - 1 THEN "join" ELSE "plan")
                /\ UNCHANGED <<err, held, result>>
    /\ UNCHANGED <<sizeHigh, nNeighbors, points, hull, op, ext, geom, file, pad, par, hw, dataStart, joined,
                   chunkIds>>

\* Thread i runs its parser over its range, start to return.  The thread
\* reads only the mapped bytes and writes only threadResults[i].
WorkerRun(i) ==
    /\ pc \in {"plan", "join"}
    /\ ~workers[i].fin
    /\ LET w == workers[i]
       IN  workers' =
             [workers EXCEPT ![i] =
                [w EXCEPT !.fin = TRUE,
                          !.cursor = w.end,
                          !.data = IF op = "PLY"
                                   THEN ParsePointCloudChunk(Mem, w.end, w.start, w.data)
                                   ELSE ParseChunk(Mem, w.end, w.start, w.data)]]
    /\ UNCHANGED <<sizeHigh, nNeighbors, points, hull, op, ext, geom, file, pad, par, hw, pc, held, dataStart,
                   joined, chunkIds, err, result>>

\* A join that returns although the thread is still running.
JoinableAlways(i) == TRUE

\* t.join() returns once the thread has returned from its parser.
Joinable(i) == workers[i].fin

\* for (auto& t : threads) t.join();
JoinThread ==
    /\ pc = "join"
    /\ joined < Len(workers)
    /\ Joinable(joined + 1)
    /\ joined' = joined + 1
    /\ pc' = (IF joined + 1 = Len(workers) THEN "merge" ELSE "join")
    /\ UNCHANGED <<sizeHigh, nNeighbors, points, hull, op, ext, geom, file, pad, par, hw, held, dataStart,
                   workers, chunkIds, err, result>>

\* The merge loop of ImportOBJMeshGeometryData over threadResults[i..].
RECURSIVE MergeOBJ(_, _)
MergeOBJ(ws, i) ==
    IF i > Len(ws) THEN ChunkData
    ELSE LET rest == MergeOBJ(ws, i + 1)
         IN  [Vertices |-> ws[i].data.Vertices \o rest.Vertices,
              VertexNormals |-> ws[i].data.VertexNormals \o rest.VertexNormals,
              PolyIndices |-> ws[i].data.PolyIndices \o rest.PolyIndices]

\* The merge loop of ImportPLYPointCloudData over threadResults[i..].
RECURSIVE MergePLY(_, _)
MergePLY(ws, i) ==
    IF i > Len(ws) THEN <<>> ELSE ws[i].data \o MergePLY(ws, i + 1)

\* insert(end(), nVertsPerChunk, static_cast<float>(threadId)) for the
\* threads from i on; thread ids count from 0.
RECURSIVE MergeChunkIds(_, _)
MergeChunkIds(ws, i) ==
    IF i > Len(ws) THEN <<>>
    ELSE [k \in 1..Len(ws[i].data.Vertices) |-> i - 1] \o MergeChunkIds(ws, i + 1)

\* A merge that appends to what the caller's vector held.
ClearedChunkIdsKept(ids) == ids

\* if (has_value() && !value()->empty()) value()->clear();
ClearedChunkIds(ids) == IF ids # <<>> THEN <<>> ELSE ids

Merge ==
    /\ pc = "merge"
    /\ result' = Some(IF op = "PLY" THEN MergePLY(workers, 1)
                       ELSE MergeOBJ(workers, 1))
    /\ chunkIds' = (IF chunkIds = NoIds THEN NoIds
                    ELSE Some(ClearedChunkIds(chunkIds[1])
                              \o MergeChunkIds(workers, 1)))
    /\ pc' = "cleanup"
    /\ UNCHANGED <<sizeHigh, nNeighbors, points, hull, op, ext, geom, file, pad, par, hw, held, dataStart,
                   workers, joined, err>>

\* UnmapViewOfFile, CloseHandle, CloseHandle, return std::move(resultData)
CleanUp ==
    /\ pc = "cleanup"
    /\ held' = held \ CleanUpRelease
    /\ pc' = "done"
    /\ UNCHANGED <<sizeHigh, nNeighbors, points, hull, op, ext, geom, file, pad, par, hw, dataStart, workers,
                   joined, chunkIds, err, result>>

\* std::ifstream file(absFileName) of ImportPLYPointCloudDataMainThread
OpenStream ==
    /\ pc = "ifstream"
    /\ \E opened \in BOOLEAN :
          IF opened
          THEN pc' = "getline" /\ UNCHANGED <<err, held, result>>
          ELSE Fail("open", {})
    /\ UNCHANGED <<sizeHigh, nNeighbors, points, hull, op, ext, geom, file, pad, par, hw, dataStart, workers,
                   joined, chunkIds>>

\* The two getline loops of ImportPLYPointCloudDataMainThread and its return
ReadStream ==
    /\ pc = "getline"
    /\ LET r == MainThreadRead(file)
       IN  IF r = Failure
           THEN Fail("header", {})
           ELSE /\ result' = r
                /\ pc' = "done"
                /\ UNCHANGED <<err, held>>
    /\ UNCHANGED <<sizeHigh, nNeighbors, points, hull, op, ext, geom, file, pad, par, hw, dataStart, workers,
                   joined, chunkIds>>

Next ==
    \/ Export
    \/ CheckExtension
    \/ CreateFile
    \/ CreateFileMapping
    \/ MapViewOfFile
    \/ ReadHeader
    \/ SpawnThread
    \/ \E i \in 1..Len(workers) : WorkerRun(i)
    \/ JoinThread
    \/ Merge
    \/ CleanUp
    \/ OpenStream
    \/ ReadStream

Spec == Init /\ [][Next]_vars

----------------------------------------------------------------------------
(* The worker threads one loop iteration at a time *)

\* Every thread is handed the first result slot.
ResultSlotShared(i) == 1

\* std::ref(threadResults[i]): the slot thread i (counted from 1) writes.
ResultSlot(i) == i

\* One iteration of the outer loop of the parser thread i runs, over the
\* data found in slot.
ParserStep(i, slot) ==
    IF op = "PLY"
    THEN PointStep(Mem, workers[i].end, workers[i].cursor, workers[slot].data)
    ELSE ParseStep(Mem, workers[i].end, workers[i].cursor, workers[slot].data)

\* An iteration that leaves the cursor where it was.
AfterStepCursorKept(i, slot, s) ==
    [workers EXCEPT ![slot].data = s.data,
                    ![i].fin = (op = "PLY" /\ s.brk)]

\* The thread's state after the iteration that gave s.
AfterStep(i, slot, s) ==
    [workers EXCEPT ![slot].data = s.data,
                    ![i].cursor = s.cursor,
                    ![i].fin = (op = "PLY" /\ s.brk)]

\* Thread i tests its loop condition and runs one iteration, or returns.
WorkerStep(i) ==
    /\ pc \in {"plan", "join"}
    /\ ~workers[i].fin
    /\ workers' = IF workers[i].cursor < workers[i].end
                  THEN AfterStep(i, ResultSlot(i), ParserStep(i, ResultSlot(i)))
                  ELSE [workers EXCEPT ![i].fin = TRUE]
    /\ UNCHANGED <<sizeHigh, nNeighbors, points, hull, op, ext, geom, file, pad, par, hw, pc, held,
                   dataStart, joined, chunkIds, err, result>>

\* A parallel import of a file with the right extension.
InitThreads ==
    /\ op \in {"OBJ", "PLY"}
    /\ geom = NoGeom
    /\ file \in (IF op = "OBJ" THEN OBJFiles ELSE PLYFiles)
    /\ ext = ExpectedExtension(op)
    /\ par = TRUE
    /\ hw \in 2..MaxThreads
    /\ pad = NUL
    /\ chunkIds = NoIds
    /\ pc = "start"
    /\ held = {}
    /\ dataStart = 0
    /\ workers = <<>>
    /\ joined = 0
    /\ err = NoError
    /\ result = Failure
    /\ points = <<>>
    /\ hull = NoHull
    /\ sizeHigh = 0
    /\ nNeighbors = 1

NextThreads ==
    \/ CheckExtension
    \/ CreateFile
    \/ CreateFileMapping
    \/ MapViewOfFile
    \/ ReadHeader
    \/ SpawnThread
    \/ \E i \in 1..Len(workers) : WorkerStep(i)
    \/ JoinThread
    \/ Merge
    \/ CleanUp

SpecThreads == InitThreads /\ [][NextThreads]_vars

----------------------------------------------------------------------------
(* Spatial operations: bounding spheres, minimum distance, convex hull *)

\* A coordinate or a length is a whole number of ticks, Unit ticks to the
\* unit of the inputs, so that the halvings of the sphere refinement over
\* MaxPoints points stay whole.
Unit == 2 ^ (MaxPoints + 2)

VAdd(a, b) == <<a[1] + b[1], a[2] + b[2], a[3] + b[3]>>
VSub(a, b) == <<a[1] - b[1], a[2] - b[2], a[3] - b[3]>>
VScale(v, k) == <<v[1] * k, v[2] * k, v[3] * k>>
VHalf(v) == <<v[1] \div 2, v[2] \div 2, v[3] \div 2>>
SqNorm(v) == v[1] * v[1] + v[2] * v[2] + v[3] * v[3]

\* std::sqrt by Newton's iteration from above: exact on a perfect square.
RECURSIVE SqrtFrom(_, _)
SqrtFrom(n, x) ==
    IF (x + n \div x) \div 2 >= x THEN x ELSE SqrtFrom(n, (x + n \div x) \div 2)

Sqrt(n) == IF n = 0 THEN 0 ELSE SqrtFrom(n, n)

\* pmp::norm
Norm(v) == Sqrt(SqNorm(v))

\* pmp::normalize: v scaled by 1 / norm(v), and by 0 when the norm is 0.
Normalize(v) ==
    IF Norm(v) > 0
    THEN <<v[1] \div Norm(v), v[2] \div Norm(v), v[3] \div Norm(v)>>
    ELSE <<0, 0, 0>>

\* The first pass of ComputePointCloudBoundingSphere from point i on.
RECURSIVE FarthestDistance(_, _, _, _)
FarthestDistance(pts, center, i, radius) ==
    IF i > Len(pts) THEN radius
    ELSE FarthestDistance(pts, center, i + 1,
                          IF Norm(VSub(pts[i], center)) < radius THEN radius
                          ELSE Norm(VSub(pts[i], center)))

\* The first pass of ComputeMeshBoundingSphere from vertex i on: vCurrent.
RECURSIVE FarthestVertex(_, _, _, _, _)
FarthestVertex(pts, center, i, radius, vCurrent) ==
    IF i > Len(pts) THEN vCurrent
    ELSE IF Norm(VSub(pts[i], center)) < radius
    THEN FarthestVertex(pts, center, i + 1, radius, vCurrent)
    ELSE FarthestVertex(pts, center, i + 1, Norm(VSub(pts[i], center)), i)

\* A refinement that never grows the sphere.
NewRadiusKept(radius, dist) == radius

\* const pmp::Scalar newRadius = (radius + dist) / 2;
NewRadius(radius, dist) == (radius + dist) \div 2

\* center += direction * moveBy; radius = newRadius;
MovedSphere(center, radius, p, newRadius) ==
    [center |-> VAdd(center, VScale(Normalize(VSub(p, center)), newRadius - radius)),
     radius |-> newRadius]

\* One iteration of the second pass, dist being norm(point - center).
GrownSphere(s, p, dist) ==
    IF dist < s.radius THEN s
    ELSE MovedSphere(s.center, s.radius, p, NewRadius(s.radius, dist))

\* The second pass from point i on.
RECURSIVE ExpandSphere(_, _, _)
ExpandSphere(pts, i, s) ==
    IF i > Len(pts) THEN s
    ELSE ExpandSphere(pts, i + 1,
                      GrownSphere(s, pts[i], Norm(VSub(pts[i], s.center))))

\* center = (center + points[0] + radius * normalize(points[0] - center)) / 2;
\* radius /= 2; with center = points[0]
InitialCloudSphere(pts, radius) ==
    [center |-> VHalf(VAdd(VAdd(pts[1], pts[1]),
                           VScale(Normalize(VSub(pts[1], pts[1])), radius))),
     radius |-> radius \div 2]

ComputePointCloudBoundingSphere(pts) ==
    ExpandSphere(pts, 1, InitialCloudSphere(pts, FarthestDistance(pts, pts[1], 1, 0)))

\* center = (center + position(vCurrent)) * 0.5;
\* radius = norm(position(vCurrent) - center);
InitialMeshSphere(pts, center, vCurrent) ==
    [center |-> center, radius |-> Norm(VSub(pts[vCurrent], center))]

MeshSphereAround(pts, vCurrent) ==
    ExpandSphere(pts, 1,
                 InitialMeshSphere(pts, VHalf(VAdd(pts[1], pts[vCurrent])), vCurrent))

\* The mesh is given by the positions of its vertices.
ComputeMeshBoundingSphere(pts) ==
    MeshSphereAround(pts, FarthestVertex(pts, pts[1], 1, 0, 1))

\* A returned pmp::Scalar: -1, or the square root of sq.
MinusOne == [neg |-> TRUE, sq |-> 1]
Root(sq) == [neg |-> FALSE, sq |-> sq]

\* if (d < minDistance) minDistance = d; <<>> is numeric_limits::max().
Smaller(d, minDistance) ==
    IF minDistance = <<>> \/ d < minDistance[1] THEN <<d>> ELSE minDistance

\* The result set of a 2-nearest-neighbour search after one more point at
\* squared distance d: the two smallest, in ascending order.
InsertNearest(best, d) ==
    IF Len(best) = 0 THEN <<d>>
    ELSE IF d < best[1] THEN <<d, best[1]>>
    ELSE IF Len(best) = 1 \/ d < best[2] THEN <<best[1], d>>
    ELSE best

\* indexAdapter.knnSearch(query_pt, 2, ...) over the points from i on.
RECURSIVE KnnSearch(_, _, _, _)
KnnSearch(pts, q, i, best) ==
    IF i > Len(pts) THEN best
    ELSE KnnSearch(pts, q, i + 1, InsertNearest(best, SqNorm(VSub(pts[i], q))))

\* out_dist_sqr.resize(num_results); return out_dist_sqr[1]; stale is what
\* the read past the end yields.
SecondDistance(found, stale) == IF Len(found) >= 2 THEN found[2] ELSE stale

\* The loop of ComputeMinInterVertexDistance from point i on.
RECURSIVE KnnMinimum(_, _, _, _)
KnnMinimum(pts, i, minDistance, stale) ==
    IF i > Len(pts) THEN minDistance
    ELSE KnnMinimum(pts, i + 1,
                    Smaller(SecondDistance(KnnSearch(pts, pts[i], 1, <<>>), stale),
                            minDistance),
                    stale)

ComputeMinInterVertexDistance(pts, stale) ==
    IF pts = <<>> THEN MinusOne
    ELSE Root(KnnMinimum(pts, 1, <<>>, stale)[1])

\* The two loops of ComputeMinInterVertexDistanceBruteForce from (i, j) on.
RECURSIVE BruteMinimum(_, _, _, _)
BruteMinimum(pts, i, j, minDistance) ==
    IF i > Len(pts) THEN minDistance
    ELSE IF j > Len(pts) THEN BruteMinimum(pts, i + 1, i + 2, minDistance)
    ELSE BruteMinimum(pts, i, j + 1,
                      Smaller(SqNorm(VSub(pts[i], pts[j])), minDistance))

ComputeMinInterVertexDistanceBruteForce(pts) ==
    IF Len(pts) < 2 THEN MinusOne
    ELSE Root(BruteMinimum(pts, 1, 2, <<>>)[1])

\* The result set of a nearest-neighbour search after one more point at
\* squared distance d: ascending order.
RECURSIVE InsertAscending(_, _)
InsertAscending(best, d) ==
    IF best = <<>> THEN <<d>>
    ELSE IF d < Head(best) THEN <<d>> \o best
    ELSE <<Head(best)>> \o InsertAscending(Tail(best), d)

\* The result set holds at most n entries.
KeepNearest(best, n) == IF Len(best) > n THEN SubSeq(best, 1, n) ELSE best

\* indexAdapter.knnSearch(query_pt, nNeighbors, ...) over the points from i
\* on; out_dist_sqr.resize(num_results)
RECURSIVE KnnSearchN(_, _, _, _, _)
KnnSearchN(pts, q, n, i, best) ==
    IF i > Len(pts) THEN best
    ELSE KnnSearchN(pts, q, n, i + 1,
                    KeepNearest(InsertAscending(best, SqNorm(VSub(pts[i], q))), n))

RECURSIVE TotalDistSq(_, _)
TotalDistSq(found, i) ==
    IF i > Len(found) THEN 0 ELSE found[i] + TotalDistSq(found, i + 1)

\* The lambda do_knn_search: sqrt(totalDistSq / (num_results - 1)), kept as
\* the fraction under the root; den = 0 is the division by 0.
MeanTerm(found) ==
    IF Len(found) = 0 THEN [num |-> 0, den |-> 1]
    ELSE [num |-> TotalDistSq(found, 1), den |-> Len(found) - 1]

\* The returned pmp::Scalar: -1, or the sum of the square roots of the
\* fractions in roots divided by count.
ComputeNearestNeighborMeanInterVertexDistance(pts, n) ==
    IF pts = <<>> THEN MinusOne
    ELSE [roots |-> [i \in 1..Len(pts) |->
                        MeanTerm(KnnSearchN(pts, pts[i], n, 1, <<>>))],
          count |-> Len(pts)]

\* A hull of any number of points is attempted.
NotEnoughPointsNever(n) == FALSE

\* if (points.size() < 4) return {};
NotEnoughPoints(n) == n < 4

\* Every hull the algorithm returns is accepted.
HullRejectedNever(h) == FALSE

\* hullVertBuffer.size() < 4, hullVertIdBuffer.size() % 3 != 0
HullRejected(h) == Len(h.vertices) < 4 \/ Len(h.indices) % 3 # 0

\* The faces read from the index buffer from position i (0-based) on.
RECURSIVE HullFaces(_, _)
HullFaces(indices, i) ==
    IF i >= Len(indices) THEN <<>>
    ELSE <<SubSeq(indices, i + 1, i + 3)>> \o HullFaces(indices, i + 3)

\* ComputeConvexHullFromPoints after getConvexHull returned h.
HullOutcome(h) ==
    IF HullRejected(h) THEN Failure
    ELSE Some([Vertices |-> h.vertices, VertexNormals |-> <<>>,
               PolyIndices |-> HullFaces(h.indices, 0)])

ConvertBufferGeomToPMPSurfaceMesh(geomData) ==
    [positions |-> geomData.Vertices,
     normals |-> geomData.VertexNormals,
     faces |-> geomData.PolyIndices]

\* ComputePMPConvexHullFromPoints, baseMeshOpt being what
\* ComputeConvexHullFromPoints returned.
PMPHullOutcome(baseMeshOpt) ==
    IF baseMeshOpt = Failure THEN Failure
    ELSE Some(ConvertBufferGeomToPMPSurfaceMesh(baseMeshOpt[1]))

\* Inputs: points on one axis, where every norm of the refinement is whole.
GeoPoints == { <<0, 0, 0>>, <<Unit, 0, 0>>, <<2 * Unit, 0, 0>>, <<-3 * Unit, 0, 0>> }

\* What the read of out_dist_sqr[1] past the end of the vector can yield.
StaleReads == {0, Unit * Unit}

\* Vertex and index buffers getConvexHull may return.
HullOutputs ==
    { [vertices |-> v, indices |-> ix] :
        v \in { <<<<0, 0, 0>>, <<Unit, 0, 0>>, <<0, Unit, 0>>>>,
                <<<<0, 0, 0>>, <<Unit, 0, 0>>, <<0, Unit, 0>>, <<0, 0, Unit>>>> },
        ix \in { <<0, 1, 2>>, <<0, 1, 2, 3>>,
                 <<0, 1, 2, 0, 3, 1, 1, 3, 2, 2, 3, 0>> } }

SphereOps == {"PointCloudSphere", "MeshSphere"}
HullOps == {"ConvexHull", "PMPConvexHull"}
SpatialOps ==
    SphereOps \cup HullOps \cup {"MinDistance", "MinDistanceBruteForce", "MeanDistance"}

InitSpatial ==
    /\ op \in SpatialOps
    /\ points \in SeqsUpTo(GeoPoints, MaxPoints)
    /\ hull = NoHull
    /\ pc = "call"
    /\ err = NoError
    /\ result = Failure
    /\ geom = NoGeom
    /\ file = ""
    /\ ext = "obj"
    /\ par = FALSE
    /\ hw = 1
    /\ pad = NUL
    /\ chunkIds = NoIds
    /\ held = {}
    /\ dataStart = 0
    /\ workers = <<>>
    /\ joined = 0
    /\ sizeHigh = 0
    /\ nNeighbors \in (IF op = "MeanDistance" THEN 1..MaxNeighbors ELSE {1})

\* ComputePointCloudBoundingSphere, ComputeMeshBoundingSphere
BoundingSphere ==
    /\ pc = "call"
    /\ op \in SphereOps
    /\ IF points = <<>>
       THEN /\ pc' = "thrown"
            /\ err' = "invalid_argument"
            /\ UNCHANGED result
       ELSE /\ result' = Some(IF op = "MeshSphere"
                              THEN ComputeMeshBoundingSphere(points)
                              ELSE ComputePointCloudBoundingSphere(points))
            /\ pc' = "done"
            /\ UNCHANGED err
    /\ UNCHANGED <<sizeHigh, nNeighbors, points, hull, op, ext, geom, file, pad, par, hw, held,
                   dataStart, workers, joined, chunkIds>>

\* ComputeMinInterVertexDistance; with one point the read of
\* out_dist_sqr[1] is outside the vector.
MinDistance ==
    /\ pc = "call"
    /\ op = "MinDistance"
    /\ \/ \E stale \in StaleReads :
             /\ result' = Some(ComputeMinInterVertexDistance(points, stale))
             /\ pc' = "done"
       \/ /\ Len(points) = 1
          /\ pc' = "crashed"
          /\ UNCHANGED result
    /\ UNCHANGED <<sizeHigh, nNeighbors, points, hull, op, ext, geom, file, pad, par, hw, held,
                   dataStart, workers, joined, chunkIds, err>>

MinDistanceBruteForce ==
    /\ pc = "call"
    /\ op = "MinDistanceBruteForce"
    /\ result' = Some(ComputeMinInterVertexDistanceBruteForce(points))
    /\ pc' = "done"
    /\ UNCHANGED <<sizeHigh, nNeighbors, points, hull, op, ext, geom, file, pad, par, hw, held,
                   dataStart, workers, joined, chunkIds, err>>

MeanDistance ==
    /\ pc = "call"
    /\ op = "MeanDistance"
    /\ result' = Some(ComputeNearestNeighborMeanInterVertexDistance(points, nNeighbors))
    /\ pc' = "done"
    /\ UNCHANGED <<sizeHigh, nNeighbors, points, hull, op, ext, geom, file, pad, par,
                   hw, held, dataStart, workers, joined, chunkIds, err>>

\* The size check of ComputeConvexHullFromPoints, called directly or from
\* ComputePMPConvexHullFromPoints.
ConvexHullCheck ==
    /\ pc = "call"
    /\ op \in HullOps
    /\ IF NotEnoughPoints(Len(points))
       THEN pc' = "done"
       ELSE pc' = "quickhull"
    /\ UNCHANGED <<sizeHigh, nNeighbors, points, hull, op, ext, geom, file, pad, par, hw, held,
                   dataStart, workers, joined, chunkIds, err, result>>

\* qh.getConvexHull(...), the checks of its buffers, and the return.
QuickHull ==
    /\ pc = "quickhull"
    /\ \E h \in HullOutputs :
          /\ hull' = Some(h)
          /\ result' = (IF op = "PMPConvexHull"
                        THEN PMPHullOutcome(HullOutcome(h))
                        ELSE HullOutcome(h))
    /\ pc' = "done"
    /\ UNCHANGED <<sizeHigh, nNeighbors, points, op, ext, geom, file, pad, par, hw,
                   held, dataStart, workers, joined, chunkIds, err>>

NextSpatial ==
    \/ BoundingSphere
    \/ MinDistance
    \/ MinDistanceBruteForce
    \/ MeanDistance
    \/ ConvexHullCheck
    \/ QuickHull

SpecSpatial == InitSpatial /\ [][NextSpatial]_vars

----------------------------------------------------------------------------
(* The mapped importers over files of any length *)

PlanOBJFiles == {f \o t : f \in Concats(OBJLines, MaxPlanLines), t \in OBJTails}
PlanPLYFiles ==
    {"ply\nelement vertex 2\nend_header\n" \o b \o t :
        b \in Concats(PLYLines, MaxPlanLines), t \in {"", "7"}}

\* A mapped import of a file with the right extension, of a length below or
\* above 2^32.  Past the importer's file_end a longer file has more bytes of
\* its own, so a read there cannot fault.
InitPlan ==
    /\ op \in {"OBJ", "PLY"}
    /\ geom = NoGeom
    /\ file \in (IF op = "OBJ" THEN PlanOBJFiles ELSE PlanPLYFiles)
    /\ sizeHigh \in 0..MaxSizeHigh
    /\ ext = ExpectedExtension(op)
    /\ par \in BOOLEAN
    /\ hw \in 1..MaxThreads
    /\ (~par => hw = 1)
    /\ pad \in (IF sizeHigh = 0 THEN Pads ELSE Pads \ {FAULT})
    /\ chunkIds = NoIds
    /\ pc = "start"
    /\ held = {}
    /\ dataStart = 0
    /\ workers = <<>>
    /\ joined = 0
    /\ err = NoError
    /\ result = Failure
    /\ points = <<>>
    /\ hull = NoHull
    /\ nNeighbors = 1

NextPlan ==
    \/ CheckExtension
    \/ CreateFile
    \/ CreateFileMapping
    \/ MapViewOfFile
    \/ ReadHeader
    \/ SpawnThread
    \/ \E i \in 1..Len(workers) : WorkerRun(i)
    \/ JoinThread
    \/ Merge
    \/ CleanUp

SpecPlan == InitPlan /\ [][NextPlan]_vars

----------------------------------------------------------------------------
(* The two chunk parsers on one range of mapped memory *)

RecordLines == {"v 1 2 3\n", "vn 0 0 1\n", "v 1 x\n", "f 1 2\n",
                "f 1/2/3 4//5 6/7\n", "f x\n", "f 1 x 3\n", "#c\n", "\n"}
RecordTails == {"", "f 2 1"}
RecordFiles ==
    {f \o t : f \in Concats(RecordLines, MaxRecords), t \in RecordTails}

PointLines == {"1 2 3\n", " 4 5 6 \r\n", "x 1\n", "1 2\n", "\n"}
PointTails == {"", "7 8 9"}
PointFiles ==
    {f \o t : f \in Concats(PointLines, MaxRecords), t \in PointTails}

\* ParseChunk (op = "OBJ") or ParsePointCloudChunk (op = "PLY") is called on
\* the range [0, Len(file)) of a view that can be read up to its end.
InitParse ==
    /\ op \in {"OBJ", "PLY"}
    /\ geom = NoGeom
    /\ file \in (IF op = "OBJ" THEN RecordFiles ELSE PointFiles)
    /\ sizeHigh = 0
    /\ ext = ExpectedExtension(op)
    /\ par = FALSE
    /\ hw = 1
    /\ pad \in {NUL, LF}
    /\ chunkIds = NoIds
    /\ pc = "parse"
    /\ held = {"file", "mapping", "view"}
    /\ dataStart = 0
    /\ workers = << [start |-> 0, end |-> Len(file), cursor |-> 0,
                     data |-> IF op = "PLY" THEN <<>> ELSE ChunkData,
                     fin |-> FALSE] >>
    /\ joined = 0
    /\ err = NoError
    /\ result = Failure
    /\ points = <<>>
    /\ hull = NoHull
    /\ nNeighbors = 1

\* while (cursor < end) { ... }: one iteration of the parser's outer loop
ParseIteration ==
    /\ pc = "parse"
    /\ ~workers[1].fin
    /\ workers[1].cursor < workers[1].end
    /\ workers' = AfterStep(1, ResultSlot(1), ParserStep(1, ResultSlot(1)))
    /\ UNCHANGED <<sizeHigh, nNeighbors, points, hull, op, ext, geom, file, pad, par,
                   hw, pc, held, dataStart, joined, chunkIds, err, result>>

\* The parser leaves its loop and returns; data is what it was handed.
ParseReturn ==
    /\ pc = "parse"
    /\ workers[1].fin \/ workers[1].cursor >= workers[1].end
    /\ workers' = [workers EXCEPT ![1].fin = TRUE]
    /\ result' = Some(workers[1].data)
    /\ pc' = "done"
    /\ UNCHANGED <<sizeHigh, nNeighbors, points, hull, op, ext, geom, file, pad, par,
                   hw, held, dataStart, joined, chunkIds, err>>

NextParse ==
    \/ ParseIteration
    \/ ParseReturn

SpecParse == InitParse /\ [][NextParse]_vars

----------------------------------------------------------------------------
(* ExportPolylinesToOBJ *)

\* The v lines of the polylines from polyline i on.
RECURSIVE PolylineVertexLines(_, _)
PolylineVertexLines(polylines, i) ==
    IF i > Len(polylines) THEN ""
    ELSE VecLines("v ", polylines[i], 1) \o PolylineVertexLines(polylines, i + 1)

\* for (size_t i = 0; i < polyline.size() - 1; ++i)
\*     file << "l " << (i + indexOffset) << " " << (i + indexOffset + 1) << "\n";
\* from i on, size being polyline.size() >= 2
RECURSIVE SegmentLines(_, _, _)
SegmentLines(size, indexOffset, i) ==
    IF i >= size - 1 THEN ""
    ELSE "l " \o NatToStr(i + indexOffset) \o " " \o NatToStr(i + indexOffset + 1)
             \o "\n" \o SegmentLines(size, indexOffset, i + 1)

\* if (polyline.size() < 2) continue; ... indexOffset += polyline.size();
NextIndexOffset(size, indexOffset) ==
    IF size < 2 THEN indexOffset ELSE indexOffset + size

\* The second loop of ExportPolylinesToOBJ from polyline i on.
RECURSIVE PolylineSegmentLines(_, _, _)
PolylineSegmentLines(polylines, i, indexOffset) ==
    IF i > Len(polylines) THEN ""
    ELSE (IF Len(polylines[i]) < 2 THEN ""
          ELSE SegmentLines(Len(polylines[i]), indexOffset, 0))
             \o PolylineSegmentLines(polylines, i + 1,
                                     NextIndexOffset(Len(polylines[i]), indexOffset))

\* The bytes ExportPolylinesToOBJ writes for polylines.
ExportPolylinesToOBJ(polylines) ==
    PolylineVertexLines(polylines, 1) \o PolylineSegmentLines(polylines, 1, 1)

Polylines ==
    { <<>>,
      << <<Dec(1, 0), Dec(2, 0), Dec(3, 0)>> >>,
      << <<Dec(1, 0), Dec(2, 0), Dec(3, 0)>>, <<Dec(0, 0), Dec(5, -1), Dec(-1, 0)>> >>,
      << <<Dec(1, 0), Dec(2, 0), Dec(3, 0)>>, <<Dec(0, 0), Dec(5, -1), Dec(-1, 0)>>,
         <<Dec(1, 0), Dec(2, 0), Dec(3, 0)>> >> }

\* A call of ExportPolylinesToOBJ(geom, absFileName); file is what the file
\* of that name holds.
InitPolylines ==
    /\ op = "Polylines"
    /\ geom \in SeqsUpTo(Polylines, MaxPolylines)
    /\ file \in {"", "#\n"}
    /\ sizeHigh = 0
    /\ ext \in {"obj", "ply"}
    /\ par = FALSE
    /\ hw = 1
    /\ pad = NUL
    /\ chunkIds = NoIds
    /\ pc = "polylines"
    /\ held = {}
    /\ dataStart = 0
    /\ workers = <<>>
    /\ joined = 0
    /\ err = NoError
    /\ result = Failure
    /\ points = <<>>
    /\ hull = NoHull
    /\ nNeighbors = 1

\* if (extension != "obj") return false;
PolylinesCheckExtension ==
    /\ pc = "polylines"
    /\ IF ext # "obj"
       THEN Fail("extension", {})
       ELSE pc' = "ofstream" /\ UNCHANGED <<err, held, result>>
    /\ UNCHANGED <<sizeHigh, nNeighbors, points, hull, op, ext, geom, file, pad, par,
                   hw, dataStart, workers, joined, chunkIds>>

\* std::ofstream file(absFileName): the file is created or truncated
PolylinesOpen ==
    /\ pc = "ofstream"
    /\ \E opened \in BOOLEAN :
          IF opened
          THEN /\ file' = ""
               /\ pc' = "write"
               /\ UNCHANGED <<err, held, result>>
          ELSE Fail("open", {}) /\ UNCHANGED file
    /\ UNCHANGED <<sizeHigh, nNeighbors, points, hull, op, ext, geom, pad, par, hw,
                   dataStart, workers, joined, chunkIds>>

\* The two loops, file.close() and return true
PolylinesWrite ==
    /\ pc = "write"
    /\ file' = file \o ExportPolylinesToOBJ(geom)
    /\ result' = Some(TRUE)
    /\ pc' = "done"
    /\ UNCHANGED <<sizeHigh, nNeighbors, points, hull, op, ext, geom, pad, par, hw,
                   held, dataStart, workers, joined, chunkIds, err>>

NextPolylines ==
    \/ PolylinesCheckExtension
    \/ PolylinesOpen
    \/ PolylinesWrite

SpecPolylines == InitPolylines /\ [][NextPolylines]_vars

----------------------------------------------------------------------------
(* Properties *)

Returned == pc = "done"
Imported == Returned /\ result # Failure
MappedOBJ == op \in {"OBJ", "RT"}

\* What ImportOBJMeshGeometryData returns for the mapped bytes with
\* importInParallel = false: one chunk, [0, file_size).
SingleThreaded == ParseChunk(Mem, FileSize, 0, ChunkData)
Value == result[1]

\* Every face reference of the data is the id of one of its vertices.
Resolved(data) ==
    \A i \in 1..Len(data.PolyIndices) :
        \A j \in 1..Len(data.PolyIndices[i]) :
            /\ data.PolyIndices[i][j] >= 0
            /\ ULess(data.PolyIndices[i][j], Len(data.Vertices))

\* C1: for every valid OBJ file and every worker count, the parallel import
\* returns the same vertex sequence and the same polygon index lists as the
\* single-threaded import.
C1_ParallelEqualsSingleThreaded ==
    (op = "OBJ" /\ Imported /\ Resolved(SingleThreaded))
        => /\ Value.Vertices = SingleThreaded.Vertices
           /\ Value.PolyIndices = SingleThreaded.PolyIndices

AllPlanned == MappedOBJ /\ Len(workers) = ThreadCount /\ pc # "crashed"

\* C2: the byte ranges handed to the workers of the OBJ import are
\* contiguous and non-overlapping and cover exactly [0, S): chunk 0 starts
\* at 0, chunk i+1 starts where chunk i ends, the last chunk ends at S.
C2_ChunksPartitionFile ==
    AllPlanned
        => /\ workers[1].start = 0
           /\ \A i \in 1..(Len(workers) - 1) : workers[i + 1].start = workers[i].end
           /\ workers[Len(workers)].end = FileSize

\* C3: every worker i >= 1 of the OBJ import starts at a record boundary:
\* its start offset is immediately after a newline byte, or equals S.
C3_WorkersStartAtRecordBoundary ==
    MappedOBJ
        => \A i \in 2..Len(workers) :
              \/ workers[i].start = FileSize
              \/ /\ workers[i].start > 0
                 /\ At(Mem, workers[i].start - 1) = LF

\* Two floats that are written with the same digits by the exporter.
SameToPrecision(a, b) == FormatFloat(a) = FormatFloat(b)

SameVertices(a, b) ==
    /\ Len(a) = Len(b)
    /\ \A i \in 1..Len(a) : \A k \in 1..3 : SameToPrecision(a[i][k], b[i][k])

\* A geometry every polygon of which has at least one index.
NoEmptyPolygon(g) == \A i \in 1..Len(g.PolyIndices) : g.PolyIndices[i] # <<>>

\* C4: writing g with ExportBaseMeshGeometryDataToOBJ and reading the file
\* back with ImportOBJMeshGeometryData returns the same vertex sequence (to
\* the precision written) and the same polygon index lists in the same order.
\* Stated for geometries whose polygons are non-empty and refer to vertices
\* of the geometry.
C4_ExportImportRoundTrip ==
    (op = "RT" /\ Imported /\ NoEmptyPolygon(geom) /\ Resolved(geom))
        => /\ SameVertices(Value.Vertices, geom.Vertices)
           /\ Value.PolyIndices = geom.PolyIndices

MappedImport == op \in {"OBJ", "RT", "PLY"}

ExtensionMismatch ==
    \/ op = "PLY" /\ ext # "ply"
    \/ op \in {"OBJ", "RT"} /\ ext # "obj"

\* C5: the two mapped importers return an empty optional on an extension
\* mismatch, on failure to open or map the file and on an empty file, and
\* each such failure is decided before any worker thread is created.
C5_EarlyFailuresReturnEmpty ==
    (MappedImport /\ Returned
        /\ (ExtensionMismatch \/ FileSize = 0 \/ err \in {"open", "mapping", "view"}))
        => result = Failure /\ workers = <<>>

C5_Witness ==
    /\ op = "PLY" /\ Returned /\ ext = "ply" /\ FileSize = 0
    /\ err = "mapping" /\ result = Failure

\* C6: in the two mapped importers the file handle, the mapping object and
\* the view are acquired only after the extension check has passed, and on
\* every return path everything acquired has been released.
C6_AcquiredAfterCheckReleasedOnReturn ==
    MappedImport
        => /\ (held # {} => ~ExtensionMismatch /\ pc \notin {"export", "start"})
           /\ (Returned => held = {})

C6_Witness ==
    /\ op = "PLY" /\ Returned /\ err = "nodata" /\ held = {}

\* C7: for every PLY file content ImportPLYPointCloudDataMainThread returns
\* the same outcome as ImportPLYPointCloudData: failure in the same cases,
\* otherwise the same points in the same order.
\* Stated for the files both importers accept: there the two must return
\* the same points.
C7_MainThreadEqualsMapped ==
    (op = "PLY" /\ Imported /\ MainThreadRead(file) # Failure)
        => result = MainThreadRead(file)

\* No line of the file is the line end_header.
NoEndHeader(f) ==
    \A i \in 1..Len(GetLines(f, 0)) : NextWord(GetLines(f, 0)[i], 0).word # "end_header"

\* C8: if a PLY file contains no end_header line, the point-cloud import
\* (mapped and main-thread) reports failure and returns no points.
\* Stated in its weakest form: such an import returns no point.
C8_NoEndHeaderFails ==
    (op \in {"PLY", "PLYMain"} /\ Returned /\ NoEndHeader(file))
        => (result = Failure \/ Value = <<>>)

\* Some byte of the file is 0.
HasNul(f) == \E i \in 0..(Len(f) - 1) : At(f, i) = NUL

\* Some line of the file is an element vertex line with a count.
HasVertexCount(f) ==
    \E i \in 1..Len(GetLines(f, 0)) :
        /\ StartsWith(GetLines(f, 0)[i], "element vertex ")
        /\ CountAfterWords(GetLines(f, 0)[i], 2) # 0

\* C9: if the PLY header has no parseable element vertex <count> line,
\* ImportPLYPointCloudData fails as a whole and returns no points, even when
\* end_header and well-formed body lines are present.
\* Stated for text files that do have an end_header line.
C9_MissingCountFails ==
    (op = "PLY" /\ Returned /\ ~HasVertexCount(file) /\ ~NoEndHeader(file)
        /\ ~HasNul(file))
        => result = Failure

\* C10: in every geometry returned by ImportOBJMeshGeometryData every index
\* of every polygon list is < Vertices.size().
C10_ReturnedIndicesResolved ==
    (op = "OBJ" /\ Imported) => Resolved(Value)

\* C11: every geometry returned by ImportOBJMeshGeometryData has no vertex
\* normals or as many vertex normals as vertices.
\* Stated for the geometries that have a vertex.
C11_NormalsMatchVertices ==
    (op = "OBJ" /\ Imported /\ Value.Vertices # <<>>)
        => \/ Len(Value.VertexNormals) = 0
           \/ Len(Value.VertexNormals) = Len(Value.Vertices)

\* The number of vertices the workers before worker i hold.
RECURSIVE VerticesBefore(_)
VerticesBefore(i) ==
    IF i <= 1 THEN 0
    ELSE VerticesBefore(i - 1) + Len(workers[i - 1].data.Vertices)

\* The worker whose partial result holds vertex j of the merged result.
WorkerOfVertex(j) ==
    CHOOSE i \in 1..Len(workers) :
        VerticesBefore(i) < j /\ j <= VerticesBefore(i) + Len(workers[i].data.Vertices)

PassedChunkIds == op = "OBJ" /\ Imported /\ chunkIds # NoIds

\* C12: when the caller passes a chunk-id vector, after a successful import
\* it holds exactly one entry per returned vertex, in vertex order, entry j
\* being the index of the worker that parsed vertex j; what it held before
\* is gone.
C12_ChunkIdsTagVertices ==
    PassedChunkIds
        => /\ Len(chunkIds[1]) = Len(Value.Vertices)
           /\ \A j \in 1..Len(chunkIds[1]) : chunkIds[1][j] = WorkerOfVertex(j) - 1
           /\ \A j \in 1..(Len(chunkIds[1]) - 1) : chunkIds[1][j] <= chunkIds[1][j + 1]

C12_Witness ==
    /\ PassedChunkIds
    /\ Len(chunkIds[1]) >= 2
    /\ chunkIds[1][1] = 0
    /\ chunkIds[1][Len(chunkIds[1])] = 1

\* Worker i (counted from 1) of the OBJ import has an empty nominal range:
\* chunk_size is 0 and i is not the last worker.
EmptyNominalChunk(i) ==
    /\ MappedOBJ
    /\ FileSize \div ThreadCount = 0
    /\ i < ThreadCount

\* C13: when the nominal chunk size S/W is 0, the affected worker receives
\* an empty byte range and contributes nothing to the merged result.
C13_EmptyChunkContributesNothing ==
    \A i \in 1..Len(workers) :
        (EmptyNominalChunk(i) /\ pc # "crashed")
            => /\ workers[i].start = workers[i].end
               /\ workers[i].data = ChunkData

\* C14: every operation that takes a file path checks the extension first
\* and on a mismatch returns failure without opening, creating or
\* truncating any file.
C14_MismatchTouchesNoFile ==
    (ext # ExpectedExtension(op))
        => /\ held = {}
           /\ pc \in {"export", "exportFailed", "start", "done"}
           /\ (pc = "done" => err = "extension")
           /\ (op = "RT" /\ pc \notin {"export", "exportFailed"}
                  => err = "extension")

\* The part of a worker's partial result, and of the merged result, that
\* holds the elements of kind f (the points, for the PLY import).
PartOf(w, f) == IF op = "PLY" THEN w.data ELSE w.data[f]
MergedPart(f) == IF op = "PLY" THEN Value ELSE Value[f]

\* The number of elements of kind f the workers before worker i hold.
RECURSIVE ElementsBefore(_, _)
ElementsBefore(i, f) ==
    IF i <= 1 THEN 0
    ELSE ElementsBefore(i - 1, f) + Len(PartOf(workers[i - 1], f))

Kinds == IF op = "PLY" THEN {"Points"} ELSE {"Vertices", "VertexNormals", "PolyIndices"}

\* Worker i's elements of kind f stand in the merged result, in their
\* order, right after those of the workers before it.
InChunkOrder(i, f) ==
    \A k \in 1..Len(PartOf(workers[i], f)) :
        /\ ElementsBefore(i, f) + k <= Len(MergedPart(f))
        /\ MergedPart(f)[ElementsBefore(i, f) + k] = PartOf(workers[i], f)[k]

MergeStarted == pc \in {"merge", "cleanup", "done"} /\ workers # <<>>

\* C19: in both mapped importers the merge starts only after every spawned
\* worker has been joined, the import never returns while a worker is still
\* running, and the partial results are concatenated in chunk index order.
C19_MergeAfterJoinInChunkOrder ==
    (op \in {"OBJ", "PLY"})
        => /\ MergeStarted
                => /\ joined = Len(workers)
                   /\ Len(workers) = ThreadCount
                   /\ \A i \in 1..Len(workers) : workers[i].fin
           /\ (Imported /\ workers # <<>>)
                => \A f \in Kinds :
                      /\ Len(MergedPart(f)) = ElementsBefore(Len(workers) + 1, f)
                      /\ \A i \in 1..Len(workers) : InChunkOrder(i, f)

C19_Witness ==
    /\ op = "PLY" /\ Imported /\ Len(workers) = 2
    /\ workers[1].data # <<>> /\ workers[2].data # <<>>

\* What the parser of worker i returns when it runs alone over its range.
ParsedAlone(i) ==
    IF op = "PLY"
    THEN ParsePointCloudChunk(Mem, workers[i].end, workers[i].start, <<>>)
    ELSE ParseChunk(Mem, workers[i].end, workers[i].start, ChunkData)

\* The merge of what each parser returns when it runs alone.
RECURSIVE MergedAlone(_)
MergedAlone(i) ==
    IF i > Len(workers) THEN (IF op = "PLY" THEN <<>> ELSE ChunkData)
    ELSE IF op = "PLY" THEN ParsedAlone(i) \o MergedAlone(i + 1)
    ELSE [Vertices |-> ParsedAlone(i).Vertices \o MergedAlone(i + 1).Vertices,
          VertexNormals |-> ParsedAlone(i).VertexNormals
                            \o MergedAlone(i + 1).VertexNormals,
          PolyIndices |-> ParsedAlone(i).PolyIndices
                          \o MergedAlone(i + 1).PolyIndices]

\* C20: each worker writes only its own result slot, so whatever the
\* interleaving of the workers' steps each slot ends with what its parser
\* returns when it runs alone, and the merged result is the merge of those.
C20_ResultIndependentOfInterleaving ==
    /\ \A i \in 1..Len(workers) : workers[i].fin => workers[i].data = ParsedAlone(i)
    /\ Imported => Value = MergedAlone(1)

C20_Witness ==
    /\ op = "OBJ" /\ Imported /\ Len(workers) = 2
    /\ workers[1].data.Vertices # <<>>
    /\ workers[2].data.Vertices # <<>>

\* C15: ComputeMinInterVertexDistance returns what
\* ComputeMinInterVertexDistanceBruteForce returns on the same points,
\* also for a single point and for duplicate points.
C15_KdTreeEqualsBruteForce ==
    (op = "MinDistance" /\ pc \in {"done", "crashed"})
        => /\ Returned
           /\ result = Some(ComputeMinInterVertexDistanceBruteForce(points))

Sphere == result[1]

\* C16: the sphere returned for a non-empty point set, or for the vertices
\* of a non-empty mesh, encloses every input point, also when there is one
\* point or all points coincide.
C16_SphereEnclosesPoints ==
    (op \in SphereOps /\ Returned)
        => \A i \in 1..Len(points) :
              Norm(VSub(points[i], Sphere.center)) <= Sphere.radius

C16_Witness ==
    /\ op = "PointCloudSphere" /\ Returned
    /\ Len(points) >= 3
    /\ points[1] # points[2] /\ points[2] # points[3] /\ points[1] # points[3]
    /\ Sphere.radius > 0

\* C17: ComputeConvexHullFromPoints returns failure for fewer than 4 points
\* without running the hull algorithm, and when the hull has fewer than 4
\* vertices or an index buffer whose length is not a multiple of 3;
\* ComputePMPConvexHullFromPoints fails exactly when it fails.
C17_HullFailures ==
    (op \in HullOps)
        => /\ Len(points) < 4
                => /\ hull = NoHull
                   /\ pc # "quickhull"
                   /\ (Returned => result = Failure)
           /\ (Returned /\ hull # NoHull
                 /\ (Len(hull[1].vertices) < 4 \/ Len(hull[1].indices) % 3 # 0))
                => result = Failure
           /\ (Returned /\ hull # NoHull /\ Len(hull[1].vertices) >= 4
                 /\ Len(hull[1].indices) % 3 = 0)
                => result # Failure

C17_Witness ==
    /\ op = "PMPConvexHull" /\ Returned /\ hull # NoHull
    /\ Len(hull[1].vertices) < 4
    /\ result = Failure

\* C18 as stated: no spatial operation signals a not-enough-data condition
\* by throwing.
C18_NothingThrows == pc # "thrown"

NotEnoughData ==
    \/ op \in SphereOps \cup {"MinDistance", "MinDistanceBruteForce"} /\ points = <<>>
    \/ op \in HullOps /\ Len(points) < 4

\* C18 amended: the minimum distance of an empty point set is -1 and the
\* hull of fewer than 4 points is an empty optional, both returned
\* normally; the bounding sphere of an empty point set or mesh throws
\* std::invalid_argument, and nothing else throws.
C18_OnlyEmptySphereThrows ==
    /\ pc = "thrown" <=> (op \in SphereOps /\ points = <<>> /\ pc # "call")
    /\ pc = "thrown" => err = "invalid_argument"
    /\ (NotEnoughData /\ Returned)
         => result = (IF op \in HullOps THEN Failure ELSE Some(MinusOne))

C18_Witness ==
    /\ op = "MeshSphere" /\ points = <<>> /\ pc = "thrown"

\* Every worker of the PLY import has its range, the file being below 2^32
\* bytes.
AllPlannedPLY ==
    /\ op = "PLY" /\ sizeHigh = 0
    /\ Len(workers) = ThreadCount /\ pc # "crashed"

\* The header of the file ends with the end_header line right before p.
AfterEndHeader(p) ==
    /\ p >= 11
    /\ SubSeq(file, p - 10, p) = "end_header\n"
    /\ (p = 11 \/ At(file, p - 12) = LF)

\* C21: in ImportPLYPointCloudData chunk 0 starts at the first byte after
\* the end_header line, and the worker ranges are contiguous, do not
\* overlap, lie inside the mapped file and cover exactly [header_end, S);
\* every boundary before S falls right after a newline byte.
C21_PLYChunksPartitionBody ==
    AllPlannedPLY
        => /\ AfterEndHeader(workers[1].start)
           /\ \A i \in 1..Len(workers) :
                 /\ workers[i].start <= workers[i].end
                 /\ workers[i].end <= FileSize
           /\ \A i \in 1..(Len(workers) - 1) :
                 /\ workers[i + 1].start = workers[i].end
                 /\ \/ workers[i].end = FileSize
                    \/ At(Mem, workers[i].end - 1) = LF
           /\ workers[Len(workers)].end = FileSize

\* Every worker of an import has its range.
PlanComplete ==
    /\ op \in {"OBJ", "PLY"}
    /\ workers # <<>> /\ Len(workers) = ThreadCount

\* C30: the file size the two mapped importers plan their chunks with is
\* the real length of the file, whatever that length: the last chunk ends
\* at the file's true end.
C30_PlannedSizeIsRealLength ==
    PlanComplete
        => /\ [high |-> 0, low |-> FileSize] = RealLength
           /\ [high |-> 0, low |-> workers[Len(workers)].end] = RealLength

\* What the chunk loop computed, and read, for worker i (counted from 1).
ChunkPlan(i) ==
    IF op = "PLY"
    THEN PLYChunk(Mem, dataStart, FileSize, ThreadCount, i - 1)
    ELSE OBJChunk(Mem, FileSize, ThreadCount, i - 1)

\* ImportPLYPointCloudData has called ReadPLYVertexHeader.
HeaderWasRead ==
    /\ op = "PLY"
    /\ \/ pc \in {"plan", "join", "merge", "cleanup", "crashed"}
       \/ err \in {"header", "nodata"}
       \/ Imported

\* C29: the chunk loops of the two importers and ReadPLYVertexHeader read no
\* byte at an offset outside [0, S) of the mapped file, whatever the file,
\* its size and the worker count.
C29_NoReadOutsideFile ==
    (op \in {"OBJ", "PLY"})
        => /\ pc # "crashed"
           /\ HeaderWasRead => ~ReadPLYVertexHeader(Mem, FileSize, 0, 0).oob
           /\ \A i \in 1..Len(workers) : ~ChunkPlan(i).oob

\* The parser o has returned from its range, the whole file.
Parsed(o) == op = o /\ pc = "done" /\ result # Failure /\ held # {}

FileLines == GetLines(file, 0)

\* The vertex references of a face record from offset p of its line on:
\* the leading decimal number of each token, 0-based, up to the first token
\* that does not start with the number of a vertex.
RECURSIVE ReferencesFrom(_, _)
ReferencesAt(line, q, d) ==
    IF q >= Len(line) \/ d.n = 0 \/ d.val = 0 THEN <<>>
    ELSE <<d.val - 1>> \o ReferencesFrom(line, SkipWord(line, d.end))

ReferencesFrom(line, p) ==
    ReferencesAt(line, SkipSpace(line, p),
                 ScanDigits(line, SkipSpace(line, p), 0, 0))

\* One polygon for every f line that has a reference, in line order.
RECURSIVE PolygonsOf(_, _)
PolygonsOf(lines, i) ==
    IF i > Len(lines) THEN <<>>
    ELSE (IF StartsWith(lines[i], "f ") /\ ReferencesFrom(lines[i], 2) # <<>>
          THEN <<ReferencesFrom(lines[i], 2)>>
          ELSE <<>>) \o PolygonsOf(lines, i + 1)

ScannableVec(line, prefix) ==
    /\ StartsWith(line, prefix)
    /\ LineFloats(SubSeq(line, Len(prefix) + 1, Len(line))).ok

\* Every token of line from offset p on starts with a number.
RECURSIVE AllNumbers(_, _)
AllNumbersAt(line, q, d) ==
    q >= Len(line) \/ (d.n > 0 /\ AllNumbers(line, SkipWord(line, d.end)))

AllNumbers(line, p) ==
    AllNumbersAt(line, SkipSpace(line, p),
                 ScanDigits(line, SkipSpace(line, p), 0, 0))

ScannableFace(line) ==
    /\ StartsWith(line, "f ")
    /\ ReferencesFrom(line, 2) # <<>>
    /\ AllNumbers(line, 2)

\* C23: a v, vn or f record of which a numeric field cannot be scanned is
\* discarded by ParseChunk: nothing is appended to the vertices, normals
\* or polygons for it, and the next line is parsed.
C23_UnscannableRecordDiscarded ==
    Parsed("OBJ")
        => /\ Len(Value.Vertices)
                = Cardinality({i \in 1..Len(FileLines) :
                                  ScannableVec(FileLines[i], "v ")})
           /\ Len(Value.VertexNormals)
                = Cardinality({i \in 1..Len(FileLines) :
                                  ScannableVec(FileLines[i], "vn ")})
           /\ Len(Value.PolyIndices)
                = Cardinality({i \in 1..Len(FileLines) :
                                  ScannableFace(FileLines[i])})

\* The cursor of the parser, and whether it stands on a record of ParseChunk.
Cursor == workers[1].cursor
AtRecord ==
    \/ IsVertexLine(Mem, Cursor)
    \/ IsNormalLine(Mem, Cursor)
    \/ IsFaceLine(Mem, Cursor)

\* One more iteration of the face-index loop from p either leaves the loop
\* or ends with the cursor after p.
FaceIndexAdvances(p, r) ==
    \/ r.end = p
    \/ r.val = 0
    \/ SkipOneSpace(Mem, SkipToSpaceOrNewline(Mem, FileSize,
                                              SkipSlashes(Mem, r.end))) > p

RECURSIVE PointsOf(_, _)
PointsOf(lines, i) ==
    IF i > Len(lines) THEN <<>>
    ELSE (IF LineFloats(lines[i]).ok THEN <<LineFloats(lines[i]).vec>> ELSE <<>>)
             \o PointsOf(lines, i + 1)

\* C25: ParsePointCloudChunk returns, in file order, one point for every
\* line of its range that holds three coordinates and nothing for any
\* other line, the last line of the file included.
C25_OnePointPerLine ==
    Parsed("PLY") => Value = PointsOf(FileLines, 1)

\* The distances from point i to the other points, in ascending order.
RECURSIVE DistancesToOthers(_, _)
DistancesToOthers(i, j) ==
    IF j > Len(points) THEN <<>>
    ELSE IF j = i THEN DistancesToOthers(i, j + 1)
    ELSE InsertAscending(DistancesToOthers(i, j + 1),
                         Norm(VSub(points[j], points[i])))

RECURSIVE SumOf(_, _)
SumOf(ds, n) == IF n = 0 THEN 0 ELSE ds[n] + SumOf(ds, n - 1)

\* The arithmetic mean of the distances from point i to its k nearest other
\* points (to all others when there are fewer), as a fraction.
NearestMeanOver(ds, n) == [num |-> SumOf(ds, n), den |-> n]
NearestMean(i, k) ==
    NearestMeanOver(DistancesToOthers(i, 1),
                    IF k < Len(points) - 1 THEN k ELSE Len(points) - 1)

\* The square root of the fraction t is the fraction e.
RootIs(t, e) ==
    /\ t.den # 0
    /\ t.num * e.den * e.den = e.num * e.num * t.den

\* C26: ComputeNearestNeighborMeanInterVertexDistance(points, k) takes, for
\* each point, the arithmetic mean of the distances to its k nearest other
\* points (the self-match of a search for k+1 neighbours left out) and
\* returns the average of these means over all points; for an empty point
\* set it returns the error value -1.
C26_MeanOfNearestNeighbors ==
    (op = "MeanDistance" /\ Returned)
        => IF points = <<>> THEN result = Some(MinusOne)
           ELSE Len(points) >= 2
                   => /\ Value.count = Len(points)
                      /\ \A i \in 1..Len(points) :
                            RootIs(Value.roots[i], NearestMean(i, nNeighbors))

\* The sphere ComputePointCloudBoundingSphere holds after its first pass.
FirstPassSphere ==
    InitialCloudSphere(points, FarthestDistance(points, points[1], 1, 0))

\* Point j is a point farthest from the start point points[0].
Farthest(j) ==
    \A i \in 1..Len(points) :
        Norm(VSub(points[i], points[1])) <= Norm(VSub(points[j], points[1]))

\* C27: after the first pass of ComputePointCloudBoundingSphere the center
\* is the midpoint of points[0] and the point farthest from it, and the
\* radius is half their distance.
C27_FirstPassIsMidpointSphere ==
    (op = "PointCloudSphere" /\ Returned)
        => \E j \in 1..Len(points) :
              /\ Farthest(j)
              /\ FirstPassSphere.center = VHalf(VAdd(points[1], points[j]))
              /\ FirstPassSphere.radius = Norm(VSub(points[j], points[1])) \div 2

\* The points of the polylines from polyline i on, one after the other.
RECURSIVE PointsFrom(_, _)
PointsFrom(polylines, i) ==
    IF i > Len(polylines) THEN <<>>
    ELSE polylines[i] \o PointsFrom(polylines, i + 1)

\* The two numbers of an l record.
SegmentOf(line) ==
    <<StrToUL(line, 2).val, StrToUL(line, StrToUL(line, 2).end).val>>

\* a and b are the 1-based positions, among all points, of two consecutive
\* points of polyline p.
JoinsConsecutive(polylines, p, a, b) ==
    \E i \in 1..(Len(polylines[p]) - 1) :
        /\ a = Len(PointsFrom(SubSeq(polylines, 1, p - 1), 1)) + i
        /\ b = a + 1

Exported == op = "Polylines" /\ pc = "done" /\ result = Some(TRUE)

\* C28: ExportPolylinesToOBJ writes one v line per point of every polyline
\* in sequence, and every l a b record it writes joins two consecutive
\* points of one polyline, a and b being the 1-based positions of those
\* points among the v lines, also when some polylines are empty or have a
\* single point.
C28_SegmentsJoinConsecutivePoints ==
    Exported
        => /\ \A k \in 1..Len(PointsFrom(geom, 1)) :
                 /\ k <= Len(FileLines)
                 /\ FileLines[k] \o "\n" = VecLine("v ", PointsFrom(geom, 1)[k])
           /\ \A n \in 1..Len(FileLines) :
                 /\ StartsWith(FileLines[n], "v ") => n <= Len(PointsFrom(geom, 1))
                 /\ StartsWith(FileLines[n], "l ")
                       => \E p \in 1..Len(geom) :
                             JoinsConsecutive(geom, p, SegmentOf(FileLines[n])[1],
                                              SegmentOf(FileLines[n])[2])

====
